---- MODULE Spec2Model ----
\* Run ledger of the automation cycle (backend/src/utils/automationLogger.ts):
\* one AutomationLogger, the run document it is bound to and the event log,
\* with the persistence service (firebase/automationRunsService) as a
\* collaborator whose every call may fail.
EXTENDS Integers, Sequences, FiniteSets, Bags, TLC

\* ------------------------------------------------------------------ bounds
MaxCount == 1        \* cap of each in-memory counter
MaxEvents == 1       \* cap of the stored event list
MaxTime == 1         \* Timestamp.now() reads a value in 1..MaxTime
MaxArg == 5          \* counter values drawn for the status computation
MaxCalls == 2        \* logEvent calls issued by the concurrent channel flows

\* ------------------------------------------------------------- value sets
NoRunId == ""
RunIds == {"r1"}                  \* ids the store hands out
ForeignRunIds == {"other"}        \* a runId smuggled in by an event payload
\* (timezone, channelsPlanned) pairs passed to createAutomationLogger
OpenArgs == {<<"UTC", 0>>, <<"Asia/Almaty", 3>>}
Times == 1..MaxTime

\* models/automationRun.ts
AutomationRunStatus == {"success", "partial", "error"}
AutomationEventLevel == {"info", "warn", "error"}

\* Partial<AutomationRun>: a function from some of the run's fields to values
CounterFields == {"channelsProcessed", "jobsCreated", "errorsCount"}
Patches ==
    {<<>>}
    \cup {[f \in {"status"} |-> s] : s \in AutomationRunStatus}
    \cup UNION {{[f \in {c} |-> n] : n \in 0..MaxCount} : c \in CounterFields}

\* Omit<AutomationEvent, "runId" | "createdAt">, and the same payload carrying
\* a runId of its own (the type is erased at run time)
EventPayloads ==
    {[f \in {"level"} |-> l] : l \in AutomationEventLevel}
    \cup {[level |-> l, runId |-> r] : l \in AutomationEventLevel, r \in ForeignRunIds}

VARIABLES
    runId,              \* AutomationLogger.runId, NoRunId before construction
    errorsCount,        \* AutomationLogger.errorsCount
    jobsCreated,        \* AutomationLogger.jobsCreated
    channelsProcessed,  \* AutomationLogger.channelsProcessed
    runs,               \* stored run documents, by id
    events,             \* stored events, in append order
    lastOp,             \* the last call made by the automation and its outcome
    pending,            \* bag of logEvent calls suspended at their await
    calls,              \* how many calls the channel flows have made so far
    completion,         \* the model's reply a generation call is about to read
    openai,             \* the module's client: NoClient, or which instance it is
    apiKey,             \* process.env.OPENAI_API_KEY is set and not empty
    requests            \* bag of generation calls suspended at their await

ledgerVars == <<runId, errorsCount, jobsCreated, channelsProcessed, runs, events, lastOp>>
flowVars == <<pending, calls>>
clientVars == <<openai, apiKey, requests>>
genVars == <<completion, clientVars>>
vars == <<ledgerVars, flowVars, genVars>>

mem == <<errorsCount, jobsCreated, channelsProcessed>>

NoOp == [op |-> "none", ok |-> TRUE, raised |-> FALSE]
\* errorCalls and errorReturns count the error-level logEvent calls made
\* and the ones that have returned to their caller
NoCalls == [jobs |-> 0, channels |-> 0, events |-> 0, errors |-> 0,
            errorCalls |-> 0, errorReturns |-> 0]
NoCompletion == [fn |-> "none"]
\* let openai: OpenAI | null = null
NoClient == 0

\* the logger is bound to a stored run; that run carries a finishedAt
Opened == runId \in DOMAIN runs
Finished == Opened /\ "finishedAt" \in DOMAIN runs[runId]

\* ------------------------------------------------ persistence collaborator
\* { ...b, ...a }: the spread written after the fields it should override
SpreadFirstWins(a, b) ==
    [f \in (DOMAIN a) \cup (DOMAIN b) |-> IF f \in DOMAIN a THEN a[f] ELSE b[f]]

\* { ...a, ...b }: the fields of b override those of a
Spread(a, b) ==
    [f \in (DOMAIN a) \cup (DOMAIN b) |-> IF f \in DOMAIN b THEN b[f] ELSE a[f]]

\* createRun(init) -> Run: stores init under a fresh id
createAutomationRun(id, runData) ==
    [r \in (DOMAIN runs) \cup {id} |-> IF r = id THEN runData ELSE runs[r]]

\* updateRun(id, patch): merge-patch of the stored run
updateAutomationRun(id, patch) ==
    [r \in DOMAIN runs |-> IF r = id THEN Spread(runs[r], patch) ELSE runs[r]]

\* appendEvent(event): appends the event to the log (the createdAt stamp it
\* adds is read by no ledger operation and is left out)
createAutomationEvent(event) ==
    Append(events, event)

\* ------------------------------------------------------- AutomationLogger
\* "||" for "&&" in the test for the error verdict
finishRunStatusOr(e, j, c) ==
    IF e > 0
    THEN IF j = 0 \/ c = 0 THEN "error" ELSE "partial"
    ELSE "success"

\* the status computed in finishRun from the in-memory counters
finishRunStatus(e, j, c) ==
    IF e > 0
    THEN IF j = 0 /\ c = 0 THEN "error" ELSE "partial"
    ELSE "success"

\* the two progress counters written to each other's field
finishRunPatchSwapped(finishedAt) ==
    [finishedAt |-> finishedAt,
     status |-> finishRunStatus(errorsCount, jobsCreated, channelsProcessed),
     channelsProcessed |-> jobsCreated,
     jobsCreated |-> channelsProcessed,
     errorsCount |-> errorsCount]

\* a final patch that leaves the counters out
finishRunPatchNoCounters(finishedAt) ==
    [finishedAt |-> finishedAt,
     status |-> finishRunStatus(errorsCount, jobsCreated, channelsProcessed)]

\* the patch finishRun hands to updateRun
finishRunPatch(finishedAt) ==
    [finishedAt |-> finishedAt,
     status |-> finishRunStatus(errorsCount, jobsCreated, channelsProcessed),
     channelsProcessed |-> channelsProcessed,
     jobsCreated |-> jobsCreated,
     errorsCount |-> errorsCount]

\* a run created with the verdict "success" instead of the placeholder
runDataSuccess(timezone, channelsPlanned) ==
    [status |-> "success",
     channelsPlanned |-> channelsPlanned,
     channelsProcessed |-> 0,
     jobsCreated |-> 0,
     errorsCount |-> 0,
     timezone |-> timezone]

\* the run document createAutomationLogger builds
runData(timezone, channelsPlanned) ==
    [status |-> "partial",
     channelsPlanned |-> channelsPlanned,
     channelsProcessed |-> 0,
     jobsCreated |-> 0,
     errorsCount |-> 0,
     timezone |-> timezone]

\* a rejected createAutomationRun is not caught: the call raises
createAutomationLoggerRaises(ok) == ~ok

\* logEvent without its try/catch
logEventRaisesUncaught(ok) == ~ok

\* logEvent and updateRun catch every error of the persistence call
logEventRaises(ok) == FALSE
updateRunRaises(ok) == FALSE

\* an errorsCount++ placed before the await, outside the try
logEventCountsAlways(level, ok) == level = "error"

\* errorsCount++ runs after the awaited createAutomationEvent, inside the try
logEventCounts(level, ok) == ok /\ level = "error"

createAutomationLogger(timezone, channelsPlanned, id, ok) ==
    /\ runId = NoRunId
    /\ id \notin DOMAIN runs
    /\ IF ok
       THEN /\ runs' = createAutomationRun(id, runData(timezone, channelsPlanned))
            /\ runId' = id
            /\ errorsCount' = 0
            /\ jobsCreated' = 0
            /\ channelsProcessed' = 0
       ELSE UNCHANGED <<runs, runId, errorsCount, jobsCreated, channelsProcessed>>
    /\ lastOp' = [op |-> "createAutomationLogger",
                  ok |-> ok, raised |-> createAutomationLoggerRaises(ok)]
    /\ UNCHANGED events

\* a logger that drops events once its run carries a finishedAt
logEventClosedAfterFinish(event, ok) ==
    /\ runId # NoRunId
    /\ ok => Len(events) < MaxEvents
    /\ logEventCounts(event.level, ok) => errorsCount < MaxCount
    /\ events' = IF ok /\ ~Finished
                 THEN createAutomationEvent(Spread(event, [f \in {"runId"} |-> runId]))
                 ELSE events
    /\ errorsCount' = IF logEventCounts(event.level, ok)
                      THEN errorsCount + 1 ELSE errorsCount
    /\ lastOp' = [op |-> "logEvent", ok |-> ok, raised |-> logEventRaises(ok)]
    /\ UNCHANGED <<runId, jobsCreated, channelsProcessed, runs>>

logEvent(event, ok) ==
    /\ runId # NoRunId
    /\ ok => Len(events) < MaxEvents
    /\ logEventCounts(event.level, ok) => errorsCount < MaxCount
    /\ events' = IF ok
                 THEN createAutomationEvent(Spread(event, [f \in {"runId"} |-> runId]))
                 ELSE events
    /\ errorsCount' = IF logEventCounts(event.level, ok)
                      THEN errorsCount + 1 ELSE errorsCount
    /\ lastOp' = [op |-> "logEvent", ok |-> ok, raised |-> logEventRaises(ok)]
    /\ UNCHANGED <<runId, jobsCreated, channelsProcessed, runs>>

\* an updateRun that recomputes the status into every patch it sends
updateRunWithStatus(patch, ok) ==
    /\ runId # NoRunId
    /\ runs' = IF ok
               THEN updateAutomationRun(runId,
                        Spread(patch, [f \in {"status"} |->
                            finishRunStatus(errorsCount, jobsCreated, channelsProcessed)]))
               ELSE runs
    /\ lastOp' = [op |-> "updateRun", ok |-> ok, raised |-> updateRunRaises(ok)]
    /\ UNCHANGED <<runId, errorsCount, jobsCreated, channelsProcessed, events>>

updateRun(patch, ok) ==
    /\ runId # NoRunId
    /\ runs' = IF ok THEN updateAutomationRun(runId, patch) ELSE runs
    /\ lastOp' = [op |-> "updateRun", ok |-> ok, raised |-> updateRunRaises(ok)]
    /\ UNCHANGED <<runId, errorsCount, jobsCreated, channelsProcessed, events>>

\* an increment that also writes the new count to the stored run
incrementJobsCreatedPersisting ==
    /\ runId # NoRunId
    /\ jobsCreated < MaxCount
    /\ jobsCreated' = jobsCreated + 1
    /\ runs' = updateAutomationRun(runId, [f \in {"jobsCreated"} |-> jobsCreated + 1])
    /\ lastOp' = [op |-> "incrementJobsCreated", ok |-> TRUE, raised |-> FALSE]
    /\ UNCHANGED <<runId, errorsCount, channelsProcessed, events>>

incrementJobsCreated ==
    /\ runId # NoRunId
    /\ jobsCreated < MaxCount
    /\ jobsCreated' = jobsCreated + 1
    /\ lastOp' = [op |-> "incrementJobsCreated", ok |-> TRUE, raised |-> FALSE]
    /\ UNCHANGED <<runId, errorsCount, channelsProcessed, runs, events>>

incrementChannelsProcessed ==
    /\ runId # NoRunId
    /\ channelsProcessed < MaxCount
    /\ channelsProcessed' = channelsProcessed + 1
    /\ lastOp' = [op |-> "incrementChannelsProcessed", ok |-> TRUE, raised |-> FALSE]
    /\ UNCHANGED <<runId, errorsCount, jobsCreated, runs, events>>

\* a finishRun that zeroes the in-memory counters once they are written
finishRunResets(now, ok) ==
    /\ runId # NoRunId
    /\ runs' = IF ok THEN updateAutomationRun(runId, finishRunPatch(now)) ELSE runs
    /\ errorsCount' = IF ok THEN 0 ELSE errorsCount
    /\ jobsCreated' = IF ok THEN 0 ELSE jobsCreated
    /\ channelsProcessed' = IF ok THEN 0 ELSE channelsProcessed
    /\ lastOp' = [op |-> "finishRun", ok |-> ok, raised |-> updateRunRaises(ok)]
    /\ UNCHANGED <<runId, events>>

\* finishRun awaits this.updateRun, which never rejects
finishRun(now, ok) ==
    /\ runId # NoRunId
    /\ runs' = IF ok THEN updateAutomationRun(runId, finishRunPatch(now)) ELSE runs
    /\ lastOp' = [op |-> "finishRun", ok |-> ok, raised |-> updateRunRaises(ok)]
    /\ UNCHANGED <<runId, errorsCount, jobsCreated, channelsProcessed, events>>

\* ------------------------------------------------------------ the ledger
Init ==
    /\ runId = NoRunId
    /\ errorsCount = 0
    /\ jobsCreated = 0
    /\ channelsProcessed = 0
    /\ runs = <<>>
    /\ events = <<>>
    /\ lastOp = NoOp
    /\ pending = EmptyBag
    /\ calls = NoCalls
    /\ completion = NoCompletion
    /\ openai = NoClient
    /\ apiKey = TRUE
    /\ requests = EmptyBag

\* one caller awaiting every call: no call is in flight between two steps
Next ==
    \/ /\ \E a \in OpenArgs, id \in RunIds, ok \in BOOLEAN :
             createAutomationLogger(a[1], a[2], id, ok)
       /\ UNCHANGED <<flowVars, genVars>>
    \/ /\ \E ev \in EventPayloads, ok \in BOOLEAN : logEvent(ev, ok)
       /\ UNCHANGED <<flowVars, genVars>>
    \/ /\ \E p \in Patches, ok \in BOOLEAN : updateRun(p, ok)
       /\ UNCHANGED <<flowVars, genVars>>
    \/ /\ incrementJobsCreated
       /\ UNCHANGED <<flowVars, genVars>>
    \/ /\ incrementChannelsProcessed
       /\ UNCHANGED <<flowVars, genVars>>
    \/ /\ \E now \in Times, ok \in BOOLEAN : finishRun(now, ok)
       /\ UNCHANGED <<flowVars, genVars>>

Spec == Init /\ [][Next]_vars

\* ------------------------------- callers that leave the verdict to finishRun
\* the patches of Patches that name neither the status nor a counter
OtherPatches == {p \in Patches : DOMAIN p \cap ({"status"} \cup CounterFields) = {}}

\* the ledger used by callers whose updateRun calls write other fields only
NextFinishOnly ==
    \/ /\ \E a \in OpenArgs, id \in RunIds, ok \in BOOLEAN :
             createAutomationLogger(a[1], a[2], id, ok)
       /\ UNCHANGED <<flowVars, genVars>>
    \/ /\ \E ev \in EventPayloads, ok \in BOOLEAN : logEvent(ev, ok)
       /\ UNCHANGED <<flowVars, genVars>>
    \/ /\ \E p \in OtherPatches, ok \in BOOLEAN : updateRun(p, ok)
       /\ UNCHANGED <<flowVars, genVars>>
    \/ /\ incrementJobsCreated
       /\ UNCHANGED <<flowVars, genVars>>
    \/ /\ incrementChannelsProcessed
       /\ UNCHANGED <<flowVars, genVars>>
    \/ /\ \E now \in Times, ok \in BOOLEAN : finishRun(now, ok)
       /\ UNCHANGED <<flowVars, genVars>>

SpecFinishOnly == Init /\ [][NextFinishOnly]_vars

\* ------------------------------------------- the status computation alone
\* a logger that has counted e errors, j jobs and c channels on an open run
InitAggregate ==
    \E e \in 0..MaxArg, j \in 0..MaxArg, c \in 0..MaxArg, a \in OpenArgs :
        /\ runId = "r1"
        /\ errorsCount = e
        /\ jobsCreated = j
        /\ channelsProcessed = c
        /\ runs = [r \in {"r1"} |-> runData(a[1], a[2])]
        /\ events = [i \in 1..e |-> [level |-> "error", runId |-> "r1"]]
        /\ lastOp = [op |-> IF c > 0 THEN "incrementChannelsProcessed"
                            ELSE IF j > 0 THEN "incrementJobsCreated"
                            ELSE IF e > 0 THEN "logEvent"
                            ELSE "createAutomationLogger",
                     ok |-> TRUE, raised |-> FALSE]
        /\ pending = EmptyBag
        /\ calls = NoCalls
        /\ completion = NoCompletion
        /\ openai = NoClient
        /\ apiKey = TRUE
        /\ requests = EmptyBag

NextAggregate ==
    /\ \E now \in Times, ok \in BOOLEAN : finishRun(now, ok)
    /\ UNCHANGED <<flowVars, genVars>>

SpecAggregate == InitAggregate /\ [][NextAggregate]_vars

\* ------------------------------------------ concurrent channel flows
\* Several channel flows share one logger. A logEvent call runs up to its
\* await (logEventCall), the persistence service settles the write at some
\* later moment (createAutomationEventSettles), and the continuation of the
\* call runs later still (logEventResume); increments and other calls run
\* between these steps.
PendingCall(level, st) == SetToBag({[level |-> level, st |-> st]})

logEventCall(event) ==
    /\ runId # NoRunId
    /\ calls.events < MaxCalls
    /\ pending' = pending (+) PendingCall(event.level, "sent")
    /\ calls' = [calls EXCEPT !.events = @ + 1,
                             !.errorCalls = IF event.level = "error" THEN @ + 1 ELSE @]
    /\ UNCHANGED <<ledgerVars, genVars>>

createAutomationEventSettles(c, ok) ==
    /\ c \in BagToSet(pending)
    /\ c.st = "sent"
    /\ events' = IF ok
                 THEN createAutomationEvent([level |-> c.level, runId |-> runId])
                 ELSE events
    /\ pending' = (pending (-) PendingCall(c.level, "sent"))
                     (+) PendingCall(c.level, IF ok THEN "resolved" ELSE "rejected")
    /\ calls' = IF ok /\ c.level = "error"
                THEN [calls EXCEPT !.errors = @ + 1] ELSE calls
    /\ UNCHANGED <<runId, errorsCount, jobsCreated, channelsProcessed, runs, lastOp>>
    /\ UNCHANGED genVars

\* a continuation that skips its increment while another call is in flight
logEventResumeGuarded(c) ==
    /\ c \in BagToSet(pending)
    /\ c.st # "sent"
    /\ errorsCount' = IF /\ logEventCounts(c.level, c.st = "resolved")
                         /\ BagCardinality(pending) = 1
                      THEN errorsCount + 1 ELSE errorsCount
    /\ pending' = pending (-) PendingCall(c.level, c.st)
    /\ lastOp' = [op |-> "logEvent", ok |-> c.st = "resolved",
                  raised |-> logEventRaises(c.st = "resolved")]
    /\ calls' = [calls EXCEPT !.errorReturns = IF c.level = "error" THEN @ + 1 ELSE @]
    /\ UNCHANGED <<runId, jobsCreated, channelsProcessed, runs, events>>
    /\ UNCHANGED genVars

logEventResume(c) ==
    /\ c \in BagToSet(pending)
    /\ c.st # "sent"
    /\ errorsCount' = IF logEventCounts(c.level, c.st = "resolved")
                      THEN errorsCount + 1 ELSE errorsCount
    /\ pending' = pending (-) PendingCall(c.level, c.st)
    /\ lastOp' = [op |-> "logEvent", ok |-> c.st = "resolved",
                  raised |-> logEventRaises(c.st = "resolved")]
    /\ calls' = [calls EXCEPT !.errorReturns = IF c.level = "error" THEN @ + 1 ELSE @]
    /\ UNCHANGED <<runId, jobsCreated, channelsProcessed, runs, events>>
    /\ UNCHANGED genVars

PendingCalls ==
    {[level |-> l, st |-> st] :
        l \in AutomationEventLevel, st \in {"sent", "resolved", "rejected"}}

\* an open logger shared by the flows of one cycle
InitConcurrent ==
    /\ runId = "r1"
    /\ errorsCount = 0
    /\ jobsCreated = 0
    /\ channelsProcessed = 0
    /\ runs = [r \in {"r1"} |-> runData("UTC", 3)]
    /\ events = <<>>
    /\ lastOp = [op |-> "createAutomationLogger", ok |-> TRUE, raised |-> FALSE]
    /\ pending = EmptyBag
    /\ calls = NoCalls
    /\ completion = NoCompletion
    /\ openai = NoClient
    /\ apiKey = TRUE
    /\ requests = EmptyBag

NextConcurrent ==
    \/ \E ev \in EventPayloads : logEventCall(ev)
    \/ \E c \in PendingCalls, ok \in BOOLEAN : createAutomationEventSettles(c, ok)
    \/ \E c \in PendingCalls : logEventResume(c)
    \/ /\ incrementJobsCreated
       /\ calls' = [calls EXCEPT !.jobs = @ + 1]
       /\ UNCHANGED <<pending, genVars>>
    \/ /\ incrementChannelsProcessed
       /\ calls' = [calls EXCEPT !.channels = @ + 1]
       /\ UNCHANGED <<pending, genVars>>
    \/ /\ \E now \in Times, ok \in BOOLEAN : finishRun(now, ok)
       /\ UNCHANGED <<flowVars, genVars>>

SpecConcurrent == InitConcurrent /\ [][NextConcurrent]_vars

\* ------------------------------------------------- text and JSON values
\* A string is a sequence of characters; a character is a one-letter string
\* or a word the pipeline treats as a unit ("title", "veo_prompt", ...).
\* The empty string is << >>.
Quote == "\""
Whitespace == {" ", "\n"}

\* JavaScript values, tagged with their type
Undefined == [t |-> "undefined"]
Null == [t |-> "null"]
Str(s) == [t |-> "string", s |-> s]
Arr(items) == [t |-> "array", items |-> items]
Obj(members) == [t |-> "object", members |-> members]
Member(k, v) == [k |-> k, v |-> v]

\* Array.isArray(v)
IsArray(v) == v.t = "array"

\* ToBoolean(v): "", null and undefined are falsy; objects and arrays truthy
Truthy(v) ==
    CASE v.t = "string" -> v.s # << >>
      [] v.t \in {"null", "undefined"} -> FALSE
      [] OTHER -> TRUE

\* a || b
OrElse(a, b) == IF Truthy(a) THEN a ELSE b

\* Object.keys(v) of a parsed object: its keys in order of first appearance
RECURSIVE KeysOf(_)
KeysOf(members) ==
    IF members = << >> THEN << >>
    ELSE LET init == KeysOf(SubSeq(members, 1, Len(members) - 1))
             k == members[Len(members)].k
         IN IF \E i \in 1..Len(init) : init[i] = k THEN init ELSE Append(init, k)

\* v[k] or v.k: the last member of that name wins, as in JSON.parse
GetMember(v, k) ==
    IF v.t # "object" THEN Undefined
    ELSE LET hits == {i \in 1..Len(v.members) : v.members[i].k = k}
         IN IF hits = {} THEN Undefined
            ELSE v.members[CHOOSE i \in hits : \A j \in hits : j <= i].v

\* String.prototype.trim of a string of characters: from its first to its
\* last character that is not white space
Trim(s) ==
    LET inked == {i \in 1..Len(s) : s[i] \notin Whitespace}
    IN IF inked = {} THEN << >>
       ELSE SubSeq(s, CHOOSE i \in inked : \A j \in inked : i <= j,
                      CHOOSE i \in inked : \A j \in inked : j <= i)

\* ------------------------------------------------------------ JSON.parse
\* A recursive-descent reading of the JSON grammar over characters: strings
\* between quotes (no raw newline inside), arrays, objects, null; white space
\* between tokens; anything after the value is a SyntaxError.
ParseFail == [ok |-> FALSE, val |-> Undefined, pos |-> 0]
Parsed(v, pos) == [ok |-> TRUE, val |-> v, pos |-> pos]

RECURSIVE SkipWs(_, _)
SkipWs(s, i) ==
    IF i <= Len(s) /\ s[i] \in Whitespace THEN SkipWs(s, i + 1) ELSE i

\* s[i] is the opening quote: the string runs to the next quote
ParseString(s, i) ==
    LET closing == {j \in (i + 1)..Len(s) : s[j] = Quote}
    IN IF closing = {} THEN ParseFail
       ELSE LET j == CHOOSE j \in closing : \A k \in closing : j <= k
                body == SubSeq(s, i + 1, j - 1)
            IN IF \E k \in 1..Len(body) : body[k] = "\n" THEN ParseFail
               ELSE Parsed(Str(body), j + 1)

\* the one element of a singleton set: { F(x) : x \in {e} } computes e once
The(S) == CHOOSE x \in S : TRUE

RECURSIVE ParseValue(_, _)
RECURSIVE ParseElements(_, _, _)
RECURSIVE ParseMembers(_, _, _)

ParseValue(s, i0) ==
    LET Inside(i, j) ==
            IF s[i] = "["
            THEN IF j <= Len(s) /\ s[j] = "]" THEN Parsed(Arr(<< >>), j + 1)
                 ELSE ParseElements(s, j, << >>)
            ELSE IF j <= Len(s) /\ s[j] = "}" THEN Parsed(Obj(<< >>), j + 1)
                 ELSE ParseMembers(s, j, << >>)
        At(i) ==
            IF i > Len(s) THEN ParseFail
            ELSE CASE s[i] = Quote -> ParseString(s, i)
                   [] s[i] = "null" -> Parsed(Null, i + 1)
                   [] s[i] \in {"[", "{"} ->
                         The({Inside(i, j) : j \in {SkipWs(s, i + 1)}})
                   [] OTHER -> ParseFail
    IN The({At(i) : i \in {SkipWs(s, i0)}})

\* the elements of an array after "[" or ",", up to the closing "]"
ParseElements(s, i, acc) ==
    LET After(e, j, a) ==
            IF j > Len(s) THEN ParseFail
            ELSE CASE s[j] = "," -> ParseElements(s, j + 1, a)
                   [] s[j] = "]" -> Parsed(Arr(a), j + 1)
                   [] OTHER -> ParseFail
        Got(e) ==
            IF ~e.ok THEN ParseFail
            ELSE The({After(e, j, a) : j \in {SkipWs(s, e.pos)},
                                       a \in {Append(acc, e.val)}})
    IN The({Got(e) : e \in {ParseValue(s, i)}})

\* the members of an object after "{" or ",", up to the closing "}"
ParseMembers(s, i0, acc) ==
    LET After(j, m) ==
            IF j > Len(s) THEN ParseFail
            ELSE CASE s[j] = "," -> ParseMembers(s, j + 1, m)
                   [] s[j] = "}" -> Parsed(Obj(m), j + 1)
                   [] OTHER -> ParseFail
        GotValue(k, v) ==
            IF ~v.ok THEN ParseFail
            ELSE The({After(j, m) : j \in {SkipWs(s, v.pos)},
                                    m \in {Append(acc, Member(k.val.s, v.val))}})
        GotColon(k, c) ==
            IF c > Len(s) \/ s[c] # ":" THEN ParseFail
            ELSE The({GotValue(k, v) : v \in {ParseValue(s, c + 1)}})
        GotKey(k) ==
            IF ~k.ok THEN ParseFail
            ELSE The({GotColon(k, c) : c \in {SkipWs(s, k.pos)}})
        At(i) ==
            IF i > Len(s) \/ s[i] # Quote THEN ParseFail
            ELSE The({GotKey(k) : k \in {ParseString(s, i)}})
    IN The({At(i) : i \in {SkipWs(s, i0)}})

\* JSON.parse(s): [ok |-> FALSE] stands for the SyntaxError it throws
JSONparse(s) ==
    LET Whole(text, v) ==
            IF v.ok /\ SkipWs(text, v.pos) > Len(text) THEN [ok |-> TRUE, val |-> v.val]
            ELSE [ok |-> FALSE, val |-> Undefined]
        Read(text) == The({Whole(text, v) : v \in {ParseValue(text, 1)}})
    IN The({Read(text) : text \in {s}})

\* ---------------------------------------------------------- generateIdeas
\* the decimal digits of a number, as `${n}` prints it
DigitChars == <<"0", "1", "2", "3", "4", "5", "6", "7", "8", "9">>

RECURSIVE Digits(_)
Digits(n) ==
    IF n < 10 THEN <<DigitChars[n + 1]>>
    ELSE Digits(n \div 10) \o <<DigitChars[(n % 10) + 1]>>

\* a lazy match: from the first "[" to the first "]" after it
jsonMatchLazy(content) ==
    LET opens == {i \in 1..Len(content) : content[i] = "["}
        first == CHOOSE i \in opens : \A k \in opens : i <= k
        closes == {j \in 1..Len(content) : content[j] = "]" /\ j > first}
        last == CHOOSE j \in closes : \A k \in closes : j <= k
    IN IF opens = {} \/ closes = {} THEN [found |-> FALSE, text |-> << >>]
       ELSE [found |-> TRUE, text |-> SubSeq(content, first, last)]

\* content.match(/\[[\s\S]*\]/): from the first "[" to the last "]" after it
jsonMatch(content) ==
    LET opens == {i \in 1..Len(content) : content[i] = "["}
        first == CHOOSE i \in opens : \A k \in opens : i <= k
        closes == {j \in 1..Len(content) : content[j] = "]" /\ j > first}
        last == CHOOSE j \in closes : \A k \in closes : k <= j
    IN IF opens = {} \/ closes = {} THEN [found |-> FALSE, text |-> << >>]
       ELSE [found |-> TRUE, text |-> SubSeq(content, first, last)]

\* the value of `parsed`, or the error thrown while computing it
parsed(content) ==
    LET Matched(again) ==
            IF again.ok THEN [error |-> "", val |-> again.val]
            ELSE [error |-> "SyntaxError", val |-> Undefined]
        Fallback(m) ==
            IF m.found THEN The({Matched(again) : again \in {JSONparse(m.text)}})
            ELSE [error |-> "parse", val |-> Undefined]
        Tried(direct) ==
            IF direct.ok THEN [error |-> "", val |-> direct.val]
            ELSE The({Fallback(m) : m \in {jsonMatch(content)}})
    IN The({Tried(direct) : direct \in {JSONparse(content)}})

\* Object.keys(parsed).find((key) => Array.isArray(parsed[key]))
arrayKey(p) ==
    LET keys == IF p.t = "object" THEN KeysOf(p.members) ELSE << >>
        hits == {i \in 1..Len(keys) : IsArray(GetMember(p, keys[i]))}
    IN IF hits = {} THEN [found |-> FALSE, key |-> << >>]
       ELSE [found |-> TRUE, key |-> keys[CHOOSE i \in hits : \A j \in hits : i <= j]]

\* a lookup that prefers the field "data" to the field "ideas"
ideasArrayDataFirst(p) ==
    IF IsArray(p) THEN [error |-> "", items |-> p.items]
    ELSE IF p.t \in {"null", "undefined"} THEN [error |-> "TypeError", items |-> << >>]
    ELSE IF Truthy(GetMember(p, <<"data">>)) /\ IsArray(GetMember(p, <<"data">>))
         THEN [error |-> "", items |-> GetMember(p, <<"data">>).items]
    ELSE IF Truthy(GetMember(p, <<"ideas">>)) /\ IsArray(GetMember(p, <<"ideas">>))
         THEN [error |-> "", items |-> GetMember(p, <<"ideas">>).items]
    ELSE IF arrayKey(p).found
         THEN [error |-> "", items |-> GetMember(p, arrayKey(p).key).items]
    ELSE [error |-> "array not found", items |-> << >>]

\* the array of ideas located in `parsed`, or the error thrown
ideasArray(p) ==
    IF IsArray(p) THEN [error |-> "", items |-> p.items]
    ELSE IF p.t \in {"null", "undefined"} THEN [error |-> "TypeError", items |-> << >>]
    ELSE IF Truthy(GetMember(p, <<"ideas">>)) /\ IsArray(GetMember(p, <<"ideas">>))
         THEN [error |-> "", items |-> GetMember(p, <<"ideas">>).items]
    ELSE IF Truthy(GetMember(p, <<"data">>)) /\ IsArray(GetMember(p, <<"data">>))
         THEN [error |-> "", items |-> GetMember(p, <<"data">>).items]
    ELSE IF arrayKey(p).found
         THEN [error |-> "", items |-> GetMember(p, arrayKey(p).key).items]
    ELSE [error |-> "array not found", items |-> << >>]

\* ideasArray.slice(0, count)
Slice(items, count) ==
    SubSeq(items, 1, IF Len(items) < count THEN Len(items) ELSE count)

\* a mapping that numbers every title and ignores the element's own
IdeaSynthesizedTitle(item, index, now) ==
    [id |-> <<"idea_">> \o Digits(now) \o <<"_">> \o Digits(index),
     title |-> Str(<<"Idea ">> \o Digits(index + 1)),
     description |-> OrElse(GetMember(item, <<"description">>),
                            OrElse(GetMember(item, <<"text">>), Str(<< >>)))]

\* one mapped element; index counts from 0. "Idea " stands for the Cyrillic
\* word the source puts before the number.
Idea(item, index, now) ==
    [id |-> <<"idea_">> \o Digits(now) \o <<"_">> \o Digits(index),
     title |-> OrElse(GetMember(item, <<"title">>),
                      OrElse(GetMember(item, <<"name">>),
                             Str(<<"Idea ">> \o Digits(index + 1)))),
     description |-> OrElse(GetMember(item, <<"description">>),
                            OrElse(GetMember(item, <<"text">>), Str(<< >>)))]

\* ideasArray.slice(0, count).map(...): reading a field of null throws
ideas(items, count, now) ==
    LET cut == Slice(items, count)
    IN IF \E i \in 1..Len(cut) : cut[i].t \in {"null", "undefined"}
       THEN [error |-> "TypeError", list |-> << >>]
       ELSE [error |-> "", list |-> [i \in 1..Len(cut) |-> Idea(cut[i], i - 1, now)]]

\* a call that returns whatever the mapping produced, an empty list included
generateIdeasResultNoEmptyCheck(content, count, now) ==
    LET Outcome(r, error) ==
            [raised |-> error # "", error |-> error,
             ideas |-> IF error = "" THEN r.list ELSE << >>]
        Mapped(p, a, r) ==
            Outcome(r, IF content = << >> THEN "empty response"
                       ELSE IF p.error # "" THEN p.error
                       ELSE IF a.error # "" THEN a.error
                       ELSE r.error)
        Located(p, a) == The({Mapped(p, a, r) : r \in {ideas(a.items, count, now)}})
        Read(p) == The({Located(p, a) : a \in {ideasArray(p.val)}})
    IN The({Read(p) : p \in {parsed(content)}})

\* what generateIdeas does with the completion `content` it received: the
\* value it returns, or the error it throws (the outer catch rethrows every
\* error as an Error with a prefixed message). Date.now() reads `now`.
generateIdeasResult(content, count, now) ==
    LET Outcome(r, error) ==
            [raised |-> error # "", error |-> error,
             ideas |-> IF error = "" THEN r.list ELSE << >>]
        Mapped(p, a, r) ==
            Outcome(r, IF content = << >> THEN "empty response"
                       ELSE IF p.error # "" THEN p.error
                       ELSE IF a.error # "" THEN a.error
                       ELSE IF r.error # "" THEN r.error
                       ELSE IF r.list = << >> THEN "empty result"
                       ELSE "")
        Located(p, a) == The({Mapped(p, a, r) : r \in {ideas(a.items, count, now)}})
        Read(p) == The({Located(p, a) : a \in {ideasArray(p.val)}})
    IN The({Read(p) : p \in {parsed(content)}})

\* the call reads the completion that its request got back
generateIdeas(count, now) ==
    /\ completion.fn = "generateIdeas"
    /\ completion' = NoCompletion
    /\ \E r \in {generateIdeasResult(completion.content, count, now)} :
          lastOp' = [op |-> "generateIdeas", ok |-> TRUE, raised |-> r.raised,
                     error |-> r.error, ideas |-> r.ideas,
                     content |-> completion.content, count |-> count, now |-> now]
    /\ UNCHANGED <<runId, errorsCount, jobsCreated, channelsProcessed, runs, events>>
    /\ UNCHANGED flowVars
    /\ UNCHANGED clientVars

\* ------------------------------------------- completions given to generateIdeas
MaxItems == 2
MaxIdeaCount == 2

\* "k":"v" as the model writes it
KV(k, v) == <<Quote, k, Quote, ":", Quote>> \o v \o <<Quote>>

\* the array elements a completion is built from
ItemTexts ==
    { <<"{">> \o KV("title", <<"A">>) \o <<",">> \o KV("description", <<"B">>) \o <<"}">>,
      <<"{">> \o KV("name", <<"N">>) \o <<",">> \o KV("text", <<"T">>) \o <<"}">>,
      <<"{">> \o KV("title", << >>) \o <<",">> \o KV("name", <<"N">>) \o <<"}">>,
      <<"{", "}">>,
      <<"null">> }

RECURSIVE Join(_)
Join(texts) ==
    IF texts = << >> THEN << >>
    ELSE IF Len(texts) = 1 THEN texts[1]
    ELSE texts[1] \o <<",">> \o Join(Tail(texts))

ArrayTexts ==
    { <<"[">> \o Join(items) \o <<"]">> :
        items \in UNION {[1..n -> ItemTexts] : n \in 0..MaxItems} }

\* a second array, told apart from every ArrayTexts element by its title
OtherArray == <<"[", "{">> \o KV("title", <<"Z">>) \o <<"}", "]">>

Key(k) == <<Quote, k, Quote, ":">>

\* the documents a completion may hold
Documents ==
    ArrayTexts
    \cup { <<"{">> \o Key("ideas") \o a \o <<"}">> : a \in ArrayTexts }
    \cup { <<"{">> \o Key("data") \o OtherArray \o <<",">> \o Key("ideas") \o a \o <<"}">> :
             a \in ArrayTexts }
    \cup { <<"{">> \o Key("list") \o OtherArray \o <<",">> \o Key("data") \o a \o <<"}">> :
             a \in ArrayTexts }
    \cup { <<"{">> \o KV("ideas", <<"s">>) \o <<",">> \o Key("data") \o a \o <<"}">> :
             a \in ArrayTexts }
    \cup { <<"{">> \o KV("x", <<"s">>) \o <<",">> \o Key("list") \o a \o <<",">>
                   \o Key("more") \o OtherArray \o <<"}">> : a \in ArrayTexts }
    \cup { <<"{", "}">>, <<"{">> \o KV("ideas", <<"s">>) \o <<"}">>,
           <<"null">>, <<Quote, "s", Quote>> }

\* prose around the document
Prefixes == { << >>, <<"w", " ">>, <<"[", "w", " ">>, <<"[", "w", "]", " ">> }
Suffixes == { << >>, <<" ", "w">>, <<" ", "[", "w">>, <<" ", "w", "]">> }

\* prose before the document, after it, or on both sides
Prose ==
    { <<pre, << >> >> : pre \in Prefixes }
    \cup { << << >>, post>> : post \in Suffixes }
    \cup { << <<"w", " ">>, <<" ", "w">> >> }

Contents ==
    { pp[1] \o doc \o pp[2] : pp \in Prose, doc \in Documents }
    \cup { << >>, <<"w">> }

Counts == 1..MaxIdeaCount
Nows == {7, 12}

\* the completion has arrived; the call has yet to read it
InitIdeas ==
    /\ runId = NoRunId
    /\ errorsCount = 0
    /\ jobsCreated = 0
    /\ channelsProcessed = 0
    /\ runs = <<>>
    /\ events = <<>>
    /\ lastOp = NoOp
    /\ pending = EmptyBag
    /\ calls = NoCalls
    /\ completion \in {[fn |-> "generateIdeas", content |-> c] : c \in Contents}
    /\ openai = 1
    /\ apiKey = TRUE
    /\ requests = EmptyBag

NextIdeas ==
    \E count \in Counts, now \in Nows : generateIdeas(count, now)

SpecIdeas == InitIdeas /\ [][NextIdeas]_vars

\* ------------------------------------------------------ generateVeoPrompt
\* ["\s:]
Separators == {Quote, ":"} \cup Whitespace

\* the spellings the /i flag lets a field name match
Spellings(name) ==
    IF name = "veo_prompt" THEN {"veo_prompt", "VEO_PROMPT"}
    ELSE IF name = "video_title" THEN {"video_title", "VIDEO_TITLE"}
    ELSE {name}

\* where name["\s:]+ can match: the name at i followed by k separators
SeparatorRuns(content, name) ==
    {ik \in (1..Len(content)) \X (1..Len(content)) :
        /\ content[ik[1]] \in Spellings(name)
        /\ ik[1] + ik[2] <= Len(content)
        /\ \A j \in (ik[1] + 1)..(ik[1] + ik[2]) : content[j] \in Separators}

\* the regular expression engine's choice: leftmost name, longest run
Preferred(candidates) ==
    CHOOSE ik \in candidates :
        \A other \in candidates :
            \/ ik[1] < other[1]
            \/ ik[1] = other[1] /\ ik[2] >= other[2]

\* the text from position g up to the first character of `stops`
UpTo(content, g, stops) ==
    LET ends == {e \in g..Len(content) : content[e] \in stops}
    IN IF ends = {} THEN SubSeq(content, g, Len(content))
       ELSE SubSeq(content, g, (CHOOSE e \in ends : \A x \in ends : e <= x) - 1)

NoMatch == [found |-> FALSE, group |-> << >>]

\* content.match(/name["\s:]+"([^"]+)"/i)
matchQuoted(content, name) ==
    LET hits == {ik \in SeparatorRuns(content, name) :
                    LET g == ik[1] + ik[2] + 2
                    IN /\ g <= Len(content)
                       /\ content[g - 1] = Quote
                       /\ content[g] # Quote
                       /\ \E e \in (g + 1)..Len(content) : content[e] = Quote}
    IN IF hits = {} THEN NoMatch
       ELSE [found |-> TRUE,
             group |-> UpTo(content, Preferred(hits)[1] + Preferred(hits)[2] + 2, {Quote})]

\* content.match(/name["\s:]+([^\n}]+)/i)
matchUnquoted(content, name) ==
    LET hits == {ik \in SeparatorRuns(content, name) :
                    LET g == ik[1] + ik[2] + 1
                    IN g <= Len(content) /\ content[g] \notin {"\n", "}"}}
    IN IF hits = {} THEN NoMatch
       ELSE [found |-> TRUE,
             group |-> UpTo(content, Preferred(hits)[1] + Preferred(hits)[2] + 1, {"\n", "}"})]

\* the quoted pattern, or else the unquoted one
veoMatch(content) ==
    IF matchQuoted(content, "veo_prompt").found
    THEN matchQuoted(content, "veo_prompt") ELSE matchUnquoted(content, "veo_prompt")

titleMatch(content) ==
    IF matchQuoted(content, "video_title").found
    THEN matchQuoted(content, "video_title") ELSE matchUnquoted(content, "video_title")

\* a fallback that is content with either pattern
parsedPromptEither(content) ==
    LET Fallback(vm, tm) ==
            IF vm.found \/ tm.found
            THEN [error |-> "",
                  val |-> Obj(<<Member(<<"veo_prompt">>, Str(Trim(vm.group))),
                                Member(<<"video_title">>, Str(Trim(tm.group)))>>)]
            ELSE [error |-> "parse", val |-> Undefined]
        Tried(direct) ==
            IF direct.ok THEN [error |-> "", val |-> direct.val]
            ELSE The({Fallback(vm, tm) : vm \in {veoMatch(content)},
                                         tm \in {titleMatch(content)}})
    IN The({Tried(direct) : direct \in {JSONparse(content)}})

\* the value of `parsed` in generateVeoPrompt, or the error thrown
parsedPrompt(content) ==
    LET Fallback(vm, tm) ==
            IF vm.found /\ tm.found
            THEN [error |-> "",
                  val |-> Obj(<<Member(<<"veo_prompt">>, Str(Trim(vm.group))),
                                Member(<<"video_title">>, Str(Trim(tm.group)))>>)]
            ELSE [error |-> "parse", val |-> Undefined]
        Tried(direct) ==
            IF direct.ok THEN [error |-> "", val |-> direct.val]
            ELSE The({Fallback(vm, tm) : vm \in {veoMatch(content)},
                                         tm \in {titleMatch(content)}})
    IN The({Tried(direct) : direct \in {JSONparse(content)}})

\* parsed.veo_prompt || parsed.veoPrompt || parsed.prompt || ""
veoPrompt(p) ==
    OrElse(GetMember(p, <<"veo_prompt">>),
           OrElse(GetMember(p, <<"veoPrompt">>),
                  OrElse(GetMember(p, <<"prompt">>), Str(<< >>))))

\* a resolution that reads the field "title" before "video_title"
videoTitleReversed(p, ideaTitle) ==
    OrElse(GetMember(p, <<"title">>),
           OrElse(GetMember(p, <<"videoTitle">>),
                  OrElse(GetMember(p, <<"video_title">>), Str(ideaTitle))))

\* parsed.video_title || parsed.videoTitle || parsed.title || idea.title
videoTitle(p, ideaTitle) ==
    OrElse(GetMember(p, <<"video_title">>),
           OrElse(GetMember(p, <<"videoTitle">>),
                  OrElse(GetMember(p, <<"title">>), Str(ideaTitle))))

\* what generateVeoPrompt does with the completion `content`: the value it
\* returns or the error it throws. Reading a field of null and calling trim
\* on a value that is not a string throw a TypeError.
generateVeoPromptResult(content, ideaTitle) ==
    LET Outcome(vp, vt, error) ==
            [raised |-> error # "", error |-> error,
             veoPrompt |-> IF error = "" THEN Trim(vp.s) ELSE << >>,
             videoTitle |-> IF error = "" THEN Trim(vt.s) ELSE << >>]
        Resolved(p, vp, vt) ==
            Outcome(vp, vt,
                    IF content = << >> THEN "empty response"
                    ELSE IF p.error # "" THEN p.error
                    ELSE IF p.val.t \in {"null", "undefined"} THEN "TypeError"
                    ELSE IF ~Truthy(vp) THEN "missing field"
                    ELSE IF vp.t # "string" \/ vt.t # "string" THEN "TypeError"
                    ELSE "")
        Read(p) == The({Resolved(p, vp, vt) : vp \in {veoPrompt(p.val)},
                                              vt \in {videoTitle(p.val, ideaTitle)}})
    IN The({Read(p) : p \in {parsedPrompt(content)}})

generateVeoPrompt(ideaTitle) ==
    /\ completion.fn = "generateVeoPrompt"
    /\ completion' = NoCompletion
    /\ \E r \in {generateVeoPromptResult(completion.content, ideaTitle)} :
          lastOp' = [op |-> "generateVeoPrompt", ok |-> TRUE, raised |-> r.raised,
                     error |-> r.error, veoPrompt |-> r.veoPrompt,
                     videoTitle |-> r.videoTitle,
                     content |-> completion.content, ideaTitle |-> ideaTitle]
    /\ UNCHANGED <<runId, errorsCount, jobsCreated, channelsProcessed, runs, events>>
    /\ UNCHANGED flowVars
    /\ UNCHANGED clientVars

\* --------------------------------------- completions given to generateVeoPrompt
\* the members of a completion that bear on the prompt, and on the title
PromptMembers ==
    { << >>,
      <<KV("veo_prompt", <<"P">>)>>,
      <<KV("veo_prompt", << >>)>>,
      <<KV("veo_prompt", <<" ">>)>>,
      <<KV("veo_prompt", <<" ", "P", " ">>)>>,
      <<KV("veoPrompt", <<"Q">>)>>,
      <<KV("prompt", <<"R">>)>>,
      <<KV("veo_prompt", << >>), KV("veoPrompt", <<"Q">>)>>,
      <<KV("prompt", <<"R">>), KV("veo_prompt", <<"P">>)>>,
      <<KV("prompt", <<"R">>), KV("veoPrompt", <<"Q">>)>>,
      <<Key("veo_prompt") \o <<"[", "]">>>> }

TitleMembers ==
    { << >>,
      <<KV("video_title", <<"V">>)>>,
      <<KV("video_title", << >>)>>,
      <<KV("video_title", <<"I">>)>>,
      <<KV("videoTitle", <<"W">>)>>,
      <<KV("title", <<"X">>)>>,
      <<KV("video_title", << >>), KV("title", <<"X">>)>>,
      <<KV("title", <<"X">>), KV("videoTitle", <<"W">>)>>,
      <<KV("videoTitle", <<"W">>), KV("video_title", <<"V">>)>>,
      <<Key("title") \o <<"null">>>> }

PromptDocuments ==
    { <<"{">> \o Join(pm \o tm) \o <<"}">> : pm \in PromptMembers, tm \in TitleMembers }
    \cup { <<"null">>, <<"[", "]">>, <<Quote, "s", Quote>> }

\* lines of free text that name a field
PromptLines ==
    { << >>,
      <<"veo_prompt", ":", " ", Quote, "P", Quote>>,
      <<Quote, "veo_prompt", Quote, ":", Quote, " ", "P", Quote>>,
      <<"VEO_PROMPT", ":", " ", "P", " ">>,
      <<"veo_prompt", ":", " ", Quote, "P">>,
      <<"veo_prompt", ":", " ", Quote, " ", Quote>>,
      <<"veo_prompt", ":">>,
      <<"veo_prompt", "=", "P">> }

TitleLines ==
    { << >>,
      <<"video_title", ":", " ", Quote, "V", Quote>>,
      <<"video_title", ":", " ", "V">>,
      <<"VIDEO_TITLE", " ", Quote, "V", " ", Quote>>,
      <<"video_title", ":", "}">>,
      <<"title", ":", " ", "X">> }

PromptTexts ==
    { <<"w", "\n">> \o pl \o <<"\n">> \o tl : pl \in PromptLines, tl \in TitleLines }
    \cup { <<"{">> \o pl \o <<",">> \o tl \o <<"}">> : pl \in PromptLines, tl \in TitleLines }
    \cup { << >> }

IdeaTitles == { <<"I">>, <<" ", "I">> }

InitVeo ==
    /\ runId = NoRunId
    /\ errorsCount = 0
    /\ jobsCreated = 0
    /\ channelsProcessed = 0
    /\ runs = <<>>
    /\ events = <<>>
    /\ lastOp = NoOp
    /\ pending = EmptyBag
    /\ calls = NoCalls
    /\ completion \in {[fn |-> "generateVeoPrompt", content |-> c] :
                         c \in PromptDocuments \cup PromptTexts}
    /\ openai = 1
    /\ apiKey = TRUE
    /\ requests = EmptyBag

NextVeo == \E ideaTitle \in IdeaTitles : generateVeoPrompt(ideaTitle)

SpecVeo == InitVeo /\ [][NextVeo]_vars

\* ---------------------------------------------------------- generateTitle
\* title.length > 60 and substring(0, 60)
MaxTitleLength == 60
\* lastSpace > 40
MinLastSpace == 40

\* ["'«»]: the guillemets are written as the two angle characters
QuoteChars == {Quote, "'", "<<", ">>"}
\* [#@]
TagStarts == {"#", "@"}
\* \w: "a" and "t" stand for the letters, digits and underscore
WordChars == {"a", "t"}
\* [\u{1F300}-\u{1F9FF}]
Emoji == {"emoji"}
\* an emoji the class above does not hold, such as U+2728 or U+2764
EmojiOutsideRange == {"sparkles"}

\* title.replace(/^["'«»]|["'«»]$/g, "")
StripQuotes(title) ==
    LET head == IF title # << >> /\ title[1] \in QuoteChars THEN Tail(title) ELSE title
    IN IF head # << >> /\ head[Len(head)] \in QuoteChars
       THEN SubSeq(head, 1, Len(head) - 1) ELSE head

\* the character at index j belongs to a match of /[#@]\w+/g: it starts a
\* tag, or only word characters lie between a tag start and it
InTag(title, j) ==
    \/ /\ title[j] \in TagStarts
       /\ j < Len(title)
       /\ title[j + 1] \in WordChars
    \/ /\ title[j] \in WordChars
       /\ \E i \in 1..(j - 1) :
              /\ title[i] \in TagStarts
              /\ \A k \in (i + 1)..j : title[k] \in WordChars

\* the characters of `title` at the indices `kept`, in order
Keep(title, kept) ==
    LET indexed == [j \in 1..Len(title) |-> <<j, title[j]>>]
        left == SelectSeq(indexed, LAMBDA pair : pair[1] \in kept)
    IN [n \in 1..Len(left) |-> left[n][2]]

\* title.replace(/[#@]\w+/g, "")
RemoveTags(title) ==
    The({Keep(t, kept) : t \in {title},
                         kept \in {{j \in 1..Len(title) : ~InTag(title, j)}}})

\* title.replace(/[\u{1F300}-\u{1F9FF}]/gu, "")
RemoveEmoji(title) == SelectSeq(title, LAMBDA ch : ch \notin Emoji)

\* the title before its length is looked at
cleanTitle(content) ==
    LET Unquoted(title) == RemoveEmoji(RemoveTags(title))
    IN The({Unquoted(title) : title \in {StripQuotes(Trim(content))}})

\* title.lastIndexOf(" "), an index counted from 0, or -1
lastIndexOfSpace(title) ==
    LET at == {i \in 1..Len(title) : title[i] = " "}
    IN IF at = {} THEN -1 ELSE (CHOOSE i \in at : \A j \in at : j <= i) - 1

\* a cut that backs off to any space at all
truncateTitleAnySpace(title) ==
    LET BackOff(cut, lastSpace) ==
            IF lastSpace > 0 THEN SubSeq(cut, 1, lastSpace) ELSE cut
        Cut(cut) == The({BackOff(cut, lastSpace) : lastSpace \in {lastIndexOfSpace(cut)}})
    IN IF Len(title) > MaxTitleLength
       THEN The({Cut(cut) : cut \in {Trim(SubSeq(title, 1, MaxTitleLength))}})
       ELSE title

\* the cut to 60 characters
truncateTitle(title) ==
    LET BackOff(cut, lastSpace) ==
            IF lastSpace > MinLastSpace THEN SubSeq(cut, 1, lastSpace) ELSE cut
        Cut(cut) == The({BackOff(cut, lastSpace) : lastSpace \in {lastIndexOfSpace(cut)}})
    IN IF Len(title) > MaxTitleLength
       THEN The({Cut(cut) : cut \in {Trim(SubSeq(title, 1, MaxTitleLength))}})
       ELSE title

generateTitle ==
    /\ completion.fn = "generateTitle"
    /\ completion' = NoCompletion
    /\ \E title \in {cleanTitle(completion.content)} :
          lastOp' = IF completion.content = << >>
                    THEN [op |-> "generateTitle", ok |-> TRUE, raised |-> TRUE,
                          error |-> "empty response", title |-> << >>,
                          content |-> completion.content]
                    ELSE [op |-> "generateTitle", ok |-> TRUE, raised |-> FALSE,
                          error |-> "", title |-> truncateTitle(title),
                          content |-> completion.content]
    /\ UNCHANGED <<runId, errorsCount, jobsCreated, channelsProcessed, runs, events>>
    /\ UNCHANGED flowVars
    /\ UNCHANGED clientVars

\* ------------------------------------------- completions given to generateTitle
\* a text of `len` letters with `sep` at the indices `at`, counted from 0
Body(len, at, sep) == [i \in 1..len |-> IF (i - 1) \in at THEN sep ELSE "a"]

BodyLengths == {45, 60, 61, 78, 79, 80}
SeparatorIndices == {10, 40, 41, 50, 59, 60}
SeparatorSets == {at \in SUBSET SeparatorIndices : Cardinality(at) <= 2}

\* what stands before and after the text
Decorations ==
    { << << >>, << >> >>,
      << <<Quote>>, <<Quote>> >>,
      << <<Quote, " ">>, << >> >>,
      << <<"#", "t", " ">>, << >> >>,
      << <<" ">>, <<"emoji", "\n">> >>,
      << << >>, <<" ", "@", "t">> >> }

TitleContents ==
    { d[1] \o Body(len, at, sep) \o d[2] :
        d \in Decorations, len \in BodyLengths, at \in SeparatorSets, sep \in Whitespace }
    \cup { Body(30, {}, " ") \o <<"#">> \o Body(49, {}, " "),
           << >>, <<" ">>, <<Quote>>, <<"#">>,
           <<"a", "sparkles">>,
           <<"a", " ", "#", "emoji", "t", "a">>,
           <<Quote, Quote, "a", Quote, Quote>>,
           <<Quote, "a", Quote, "emoji">> }

InitTitle ==
    /\ runId = NoRunId
    /\ errorsCount = 0
    /\ jobsCreated = 0
    /\ channelsProcessed = 0
    /\ runs = <<>>
    /\ events = <<>>
    /\ lastOp = NoOp
    /\ pending = EmptyBag
    /\ calls = NoCalls
    /\ completion \in {[fn |-> "generateTitle", content |-> c] : c \in TitleContents}
    /\ openai = 1
    /\ apiKey = TRUE
    /\ requests = EmptyBag

NextTitle == generateTitle

SpecTitle == InitTitle /\ [][NextTitle]_vars

\* --------------------------------------------------- the OpenAI client
\* how many generation calls may wait for the service at once
MaxRequests == 2

GenerationCalls == {"generateIdeas", "generateVeoPrompt", "generateTitle"}

\* getOpenAIClient constructing a client on every call that finds the key
getOpenAIClientEveryCall ==
    IF ~apiKey
    THEN [raised |-> TRUE, openai |-> openai]
    ELSE [raised |-> FALSE, openai |-> openai + 1]

\* getOpenAIClient: whether it throws, and the client the module holds after
\* it; a constructed client is told from any earlier one by its number
getOpenAIClient ==
    IF openai = NoClient
    THEN IF ~apiKey
         THEN [raised |-> TRUE, openai |-> openai]
         ELSE [raised |-> FALSE, openai |-> openai + 1]
    ELSE [raised |-> FALSE, openai |-> openai]

\* a catch block that hands the error back as the call's value
generateCatchReturns(fn, error) ==
    [op |-> fn, ok |-> TRUE, raised |-> FALSE, error |-> error, content |-> << >>,
     ideas |-> << >>, veoPrompt |-> << >>, videoTitle |-> << >>, title |-> << >>,
     count |-> 0, now |-> 0, ideaTitle |-> << >>]

\* the catch block of a generation call: the error is thrown again, wrapped
generateCatch(fn, error) ==
    [op |-> fn, ok |-> TRUE, raised |-> TRUE, error |-> error, content |-> << >>,
     ideas |-> << >>, veoPrompt |-> << >>, videoTitle |-> << >>, title |-> << >>,
     count |-> 0, now |-> 0, ideaTitle |-> << >>]

PendingRequest(fn, client) == SetToBag({[fn |-> fn, client |-> client]})

\* a generation call up to its await: it takes the client and sends the
\* request, or fails on the missing key
requestCompletion(fn) ==
    /\ BagCardinality(requests) < MaxRequests
    /\ \E got \in {getOpenAIClient} :
          /\ openai' = got.openai
          /\ IF got.raised
             THEN /\ lastOp' = generateCatch(fn, "not configured")
                  /\ UNCHANGED requests
             ELSE /\ requests' = requests (+) PendingRequest(fn, got.openai)
                  /\ UNCHANGED lastOp
    /\ UNCHANGED <<runId, errorsCount, jobsCreated, channelsProcessed, runs, events>>
    /\ UNCHANGED <<flowVars, completion, apiKey>>

generateIdeasCall == requestCompletion("generateIdeas")
generateVeoPromptCall == requestCompletion("generateVeoPrompt")
generateTitleCall == requestCompletion("generateTitle")

\* the service answers a request: the call resumes with the reply once the
\* continuation before it has run
completionsCreateSettles(req, content) ==
    /\ req \in BagToSet(requests)
    /\ completion = NoCompletion
    /\ requests' = requests (-) PendingRequest(req.fn, req.client)
    /\ completion' = [fn |-> req.fn, content |-> content]
    /\ UNCHANGED <<ledgerVars, flowVars, openai, apiKey>>

\* the service fails a request: the call resumes in its catch block
completionsCreateRejects(req) ==
    /\ req \in BagToSet(requests)
    /\ requests' = requests (-) PendingRequest(req.fn, req.client)
    /\ lastOp' = generateCatch(req.fn, "service")
    /\ UNCHANGED <<runId, errorsCount, jobsCreated, channelsProcessed, runs, events>>
    /\ UNCHANGED <<flowVars, completion, openai, apiKey>>

\* the environment sets or clears OPENAI_API_KEY
setApiKey(present) ==
    /\ apiKey # present
    /\ apiKey' = present
    /\ UNCHANGED <<ledgerVars, flowVars, completion, openai, requests>>

\* replies of the service to each call
IdeaReplies ==
    { << >>, <<"w">>, <<"{", "}">>, <<"[", "]">>,
      <<"[", "{">> \o KV("title", <<"A">>) \o <<",">> \o KV("description", <<"B">>)
          \o <<"}", "]">> }

PromptReplies ==
    { << >>, <<"w">>, <<"{", "}">>,
      <<"{">> \o KV("veo_prompt", <<"P">>) \o <<",">> \o KV("video_title", <<"V">>)
          \o <<"}">> }

TitleReplies == { << >>, <<"a">>, <<Quote, "a", Quote>> }

Replies(fn) ==
    CASE fn = "generateIdeas" -> IdeaReplies
      [] fn = "generateVeoPrompt" -> PromptReplies
      [] fn = "generateTitle" -> TitleReplies

InitClient ==
    /\ runId = NoRunId
    /\ errorsCount = 0
    /\ jobsCreated = 0
    /\ channelsProcessed = 0
    /\ runs = <<>>
    /\ events = <<>>
    /\ lastOp = NoOp
    /\ pending = EmptyBag
    /\ calls = NoCalls
    /\ completion = NoCompletion
    /\ openai = NoClient
    /\ apiKey \in BOOLEAN
    /\ requests = EmptyBag

\* generation calls of several channel flows, interleaved at their awaits
NextClient ==
    \/ \E present \in BOOLEAN : setApiKey(present)
    \/ generateIdeasCall
    \/ generateVeoPromptCall
    \/ generateTitleCall
    \/ \E req \in BagToSet(requests) :
           \E content \in Replies(req.fn) : completionsCreateSettles(req, content)
    \/ \E req \in BagToSet(requests) : completionsCreateRejects(req)
    \/ \E count \in Counts, now \in Nows : generateIdeas(count, now)
    \/ \E ideaTitle \in IdeaTitles : generateVeoPrompt(ideaTitle)
    \/ generateTitle

SpecClient == InitClient /\ [][NextClient]_vars

\* ---------------------------------------------------------------- claims
StoredStatus == IF Opened THEN runs[runId].status ELSE "absent"
StoredCounters ==
    IF Opened
    THEN <<runs[runId].errorsCount, runs[runId].jobsCreated, runs[runId].channelsProcessed>>
    ELSE <<0, 0, 0>>
LeqAll(x, y) == x[1] <= y[1] /\ x[2] <= y[2] /\ x[3] <= y[3]

\* StatusAggregator.aggregate as the specification tabulates it
aggregate(e, j, c) ==
    CASE e = 0 -> "success"
      [] e > 0 /\ j = 0 /\ c = 0 -> "error"
      [] e > 0 /\ (j > 0 \/ c > 0) -> "partial"

\* C1: for all non-negative counters the status finish stores is success when
\* errorsCount = 0, error when errorsCount > 0 and nothing was created or
\* processed, partial when errorsCount > 0 and something was; exactly one of
\* the three cases applies.
C1_StatusCases ==
    /\ Cardinality({k \in 1..3 :
            \/ k = 1 /\ errorsCount = 0
            \/ k = 2 /\ errorsCount > 0 /\ jobsCreated = 0 /\ channelsProcessed = 0
            \/ k = 3 /\ errorsCount > 0 /\ (jobsCreated > 0 \/ channelsProcessed > 0)}) = 1
    /\ (lastOp.op = "finishRun" /\ lastOp.ok) =>
          /\ errorsCount = 0 => StoredStatus = "success"
          /\ (errorsCount > 0 /\ jobsCreated = 0 /\ channelsProcessed = 0)
                => StoredStatus = "error"
          /\ (errorsCount > 0 /\ (jobsCreated > 0 \/ channelsProcessed > 0))
                => StoredStatus = "partial"

C1_Witness ==
    /\ lastOp.op = "finishRun" /\ lastOp.ok
    /\ errorsCount = 5 /\ jobsCreated = 1 /\ channelsProcessed = 0
    /\ StoredStatus = "partial"

\* C2: logEvent and updateRun return normally to their caller whether or not
\* the persistence call failed, for every level and every patch.
C2_LedgerCallsNeverRaise ==
    lastOp.op \in {"logEvent", "updateRun"} => ~lastOp.raised

C2_Witness ==
    /\ lastOp.op = "logEvent" /\ ~lastOp.ok /\ ~lastOp.raised
    /\ events = <<>>

\* C3: createAutomationLogger does not raise when createAutomationRun fails.
C3_OpenNeverRaises ==
    lastOp.op = "createAutomationLogger" => ~lastOp.raised

\* C4: finishRun never raises; when its persistence call succeeds the stored
\* run receives in one step finishedAt = now, the aggregated status and the
\* three in-memory counters as they are at the call, and nothing else of the
\* run changes; when it fails the stored run is left as it was.
C4_FinishStep ==
    [][lastOp'.op = "finishRun" =>
          /\ ~lastOp'.raised
          /\ mem' = mem
          /\ lastOp'.ok =>
                \E now \in Times :
                    runs' = [r \in DOMAIN runs |->
                               IF r = runId
                               THEN Spread(runs[r],
                                      [finishedAt |-> now,
                                       status |-> aggregate(errorsCount, jobsCreated,
                                                            channelsProcessed),
                                       channelsProcessed |-> channelsProcessed,
                                       jobsCreated |-> jobsCreated,
                                       errorsCount |-> errorsCount])
                               ELSE runs[r]]
          /\ ~lastOp'.ok => runs' = runs]_vars

C4_Witness ==
    /\ lastOp.op = "finishRun" /\ lastOp.ok /\ ~lastOp.raised
    /\ Finished
    /\ StoredCounters = <<1, 1, 0>>
    /\ mem = <<1, 1, 0>>
    /\ StoredStatus = "partial"

\* C5: every logEvent with level error raises errorsCount by exactly one,
\* whether or not the event was persisted; info and warn leave it unchanged.
C5_ErrorAlwaysCounted ==
    [][\A ev \in EventPayloads, ok \in BOOLEAN :
          logEvent(ev, ok) =>
             errorsCount' = IF ev.level = "error" THEN errorsCount + 1 ELSE errorsCount]_vars

\* C6: once finishRun has persisted the final record, a later logEvent of any
\* level still appends its event (whenever the store accepts the write) and
\* leaves the stored run, status and finishedAt included, as finishRun wrote it.
C6_LogAfterFinish ==
    [][(Finished /\ lastOp'.op = "logEvent") =>
          /\ runs' = runs
          /\ Finished'
          /\ lastOp'.ok =>
                /\ Len(events') = Len(events) + 1
                /\ SubSeq(events', 1, Len(events)) = events
                /\ events'[Len(events')].runId = runId
          /\ ~lastOp'.ok => events' = events]_vars

C6_Witness ==
    /\ Finished
    /\ lastOp.op = "logEvent" /\ lastOp.ok
    /\ StoredStatus = "success"
    /\ errorsCount = 1
    /\ Len(events) = 1 /\ events[1].level = "error"

\* C7 as stated: the stored status is changed only by createAutomationLogger
\* and by finishRun.
C7_StatusOnlyOpenFinish ==
    [][StoredStatus' # StoredStatus =>
          lastOp'.op \in {"createAutomationLogger", "finishRun"}]_vars

\* C7 amended: the stored status is changed only by createAutomationLogger,
\* by finishRun and by an updateRun whose patch carries a status field;
\* logEvent, the increments and updateRun patches without status leave it.
C7_StatusWriters ==
    [][StoredStatus' # StoredStatus =>
          \/ lastOp'.op \in {"createAutomationLogger", "finishRun"}
          \/ \E p \in Patches : "status" \in DOMAIN p /\ updateRun(p, TRUE)]_vars

C7_Witness ==
    /\ lastOp.op = "updateRun" /\ lastOp.ok
    /\ ~Finished /\ Opened
    /\ StoredStatus = "partial"
    /\ StoredCounters = <<1, 0, 0>>

\* C8 as stated: neither the in-memory counters nor the stored counters ever
\* decrease, updateRun patches and repeated finishRun calls included.
C8_CountersNeverDecrease ==
    [][LeqAll(mem, mem') /\ LeqAll(StoredCounters, StoredCounters')]_vars

\* C8 amended: the in-memory counters never decrease; the stored counters
\* never decrease, nor exceed the in-memory ones, as long as no updateRun
\* patch carrying a counter field is applied (repeated finishRun included):
\* a step from a state whose stored counters do not exceed the in-memory ones
\* to one where they are lower, or exceed them, is such an updateRun.
CounterPatchStep ==
    \E p \in Patches : (DOMAIN p) \cap CounterFields # {} /\ updateRun(p, TRUE)

C8_CountersMonotone ==
    [][(runs' # runs \/ mem' # mem) =>
          /\ LeqAll(mem, mem')
          /\ (/\ LeqAll(StoredCounters, mem)
              /\ ~(LeqAll(StoredCounters, StoredCounters') /\ LeqAll(StoredCounters', mem')))
                => CounterPatchStep]_vars

C8_Witness ==
    /\ lastOp.op = "finishRun" /\ lastOp.ok
    /\ StoredCounters = <<1, 1, 1>>
    /\ mem = <<1, 1, 1>>

\* C9: a successful createAutomationLogger stores exactly one new run with
\* status partial, no finishedAt, zero counters and the given channelsPlanned
\* and timezone, and binds the logger to that run with zero counters.
C9_OpenCreatesRun ==
    [][\A a \in OpenArgs, id \in RunIds :
          createAutomationLogger(a[1], a[2], id, TRUE) =>
             /\ id \notin DOMAIN runs
             /\ DOMAIN runs' = (DOMAIN runs) \cup {id}
             /\ \A r \in DOMAIN runs : runs'[r] = runs[r]
             /\ runs'[id].status = "partial"
             /\ "finishedAt" \notin DOMAIN runs'[id]
             /\ runs'[id].channelsProcessed = 0
             /\ runs'[id].jobsCreated = 0
             /\ runs'[id].errorsCount = 0
             /\ runs'[id].timezone = a[1]
             /\ runs'[id].channelsPlanned = a[2]
             /\ runId' = id
             /\ mem' = <<0, 0, 0>>
             /\ ~lastOp'.raised]_vars

C9_Witness ==
    /\ lastOp.op = "createAutomationLogger" /\ lastOp.ok
    /\ Opened
    /\ runs[runId].timezone = "Asia/Almaty"
    /\ runs[runId].channelsPlanned = 3

\* C10: each increment raises its own in-memory counter by one and changes
\* nothing else: not the other counters, not the stored run, not the events.
C10_IncrementFrame ==
    [][/\ lastOp'.op = "incrementJobsCreated" =>
             /\ jobsCreated' = jobsCreated + 1
             /\ UNCHANGED <<errorsCount, channelsProcessed, runId, runs, events>>
       /\ lastOp'.op = "incrementChannelsProcessed" =>
             /\ channelsProcessed' = channelsProcessed + 1
             /\ UNCHANGED <<errorsCount, jobsCreated, runId, runs, events>>]_vars

C10_Witness ==
    /\ lastOp.op = "incrementJobsCreated"
    /\ jobsCreated = 1
    /\ Opened /\ runs[runId].jobsCreated = 0

ErrorEvents == Cardinality({i \in 1..Len(events) : events[i].level = "error"})

C12_NoLostUpdate ==
    pending = EmptyBag =>
        /\ jobsCreated = calls.jobs
        /\ channelsProcessed = calls.channels
        /\ errorsCount = calls.errors
        /\ errorsCount = ErrorEvents

C12_Witness ==
    /\ pending = EmptyBag
    /\ calls.events = 2
    /\ errorsCount = 2
    /\ jobsCreated = 1
    /\ channelsProcessed = 1
    /\ Len(events) = 2

\* ---- generateIdeas
Min(a, b) == IF a < b THEN a ELSE b

IdeasCall == lastOp.op = "generateIdeas"
IdeasReturned == IdeasCall /\ ~lastOp.raised

\* the completion parses as it stands to an array of n >= least objects
ArrayOfObjects(content, least) ==
    /\ JSONparse(content).ok
    /\ IsArray(JSONparse(content).val)
    /\ Len(JSONparse(content).val.items) >= least
    /\ \A i \in 1..Len(JSONparse(content).val.items) :
           JSONparse(content).val.items[i].t = "object"

Present(item, k) == GetMember(item, k) # Undefined

\* C13: for every count and every completion, generateIdeas either returns
\* at least one and at most count ideas with pairwise distinct ids, or
\* fails with an error and returns nothing; it never returns an empty list.
C13_IdeasOrError ==
    IdeasCall =>
        IF lastOp.raised
        THEN lastOp.error # "" /\ lastOp.ideas = << >>
        ELSE /\ Len(lastOp.ideas) >= 1
             /\ Len(lastOp.ideas) <= lastOp.count
             /\ \A i, j \in 1..Len(lastOp.ideas) :
                    i # j => lastOp.ideas[i].id # lastOp.ideas[j].id

C13_Witness ==
    /\ IdeasReturned
    /\ Len(lastOp.ideas) = 2
    /\ lastOp.ideas[1].id = <<"idea_", "1", "2", "_", "0">>
    /\ lastOp.ideas[2].id = <<"idea_", "1", "2", "_", "1">>

\* C14 as stated: a completion that is a well-formed array of N >= 1 objects
\* yields exactly N ideas in the same order, the title and the description
\* of each copied from the element whenever the element has that field.
C14_ExactlyNCopied ==
    (IdeasCall /\ ArrayOfObjects(lastOp.content, 1)) =>
        LET items == JSONparse(lastOp.content).val.items
        IN /\ ~lastOp.raised
           /\ Len(lastOp.ideas) = Len(items)
           /\ \A i \in 1..Len(items) :
                  /\ Present(items[i], <<"title">>) =>
                         lastOp.ideas[i].title = GetMember(items[i], <<"title">>)
                  /\ Present(items[i], <<"description">>) =>
                         lastOp.ideas[i].description = GetMember(items[i], <<"description">>)

\* C14 amended: a completion that is a well-formed array of N >= 1 objects
\* yields min(N, count) ideas, made from the first elements in their order,
\* the title and the description of each copied from the element whenever
\* the element has that field and it is not empty.
C14_FirstCountCopied ==
    (IdeasCall /\ ArrayOfObjects(lastOp.content, 1)) =>
        LET items == JSONparse(lastOp.content).val.items
        IN /\ ~lastOp.raised
           /\ Len(lastOp.ideas) = Min(Len(items), lastOp.count)
           /\ \A i \in 1..Len(lastOp.ideas) :
                  /\ Truthy(GetMember(items[i], <<"title">>)) =>
                         lastOp.ideas[i].title = GetMember(items[i], <<"title">>)
                  /\ Truthy(GetMember(items[i], <<"description">>)) =>
                         lastOp.ideas[i].description = GetMember(items[i], <<"description">>)

C14_Witness ==
    /\ IdeasReturned
    /\ ArrayOfObjects(lastOp.content, 2)
    /\ lastOp.count = 1
    /\ lastOp.ideas[1].title = Str(<<"A">>)
    /\ lastOp.ideas[1].description = Str(<<"B">>)

\* the outcome of mapping the array `items` for the recorded call
MappedFrom(items) ==
    LET r == ideas(items, lastOp.count, lastOp.now)
    IN IF r.error # "" \/ r.list = << >>
       THEN lastOp.raised /\ lastOp.ideas = << >>
       ELSE ~lastOp.raised /\ lastOp.ideas = r.list

FieldIsArray(p, k) == p.t = "object" /\ IsArray(GetMember(p, <<k>>))

\* C15: from the parsed value the idea array is the value itself if it is an
\* array; else its field "ideas" if that is an array; else its field "data"
\* if that is an array; else its first field, in key order, whose value is an
\* array; when none applies the call fails and returns no ideas.
C15_ArrayLocation ==
    (IdeasCall /\ JSONparse(lastOp.content).ok) =>
        LET p == JSONparse(lastOp.content).val
            keys == IF p.t = "object" THEN KeysOf(p.members) ELSE << >>
        IN IF IsArray(p) THEN MappedFrom(p.items)
           ELSE IF FieldIsArray(p, "ideas")
                THEN MappedFrom(GetMember(p, <<"ideas">>).items)
           ELSE IF FieldIsArray(p, "data")
                THEN MappedFrom(GetMember(p, <<"data">>).items)
           ELSE IF \E i \in 1..Len(keys) : IsArray(GetMember(p, keys[i]))
                THEN \E i \in 1..Len(keys) :
                        /\ IsArray(GetMember(p, keys[i]))
                        /\ \A j \in 1..(i - 1) : ~IsArray(GetMember(p, keys[j]))
                        /\ MappedFrom(GetMember(p, keys[i]).items)
           ELSE lastOp.raised /\ lastOp.ideas = << >>

C15_Witness ==
    /\ IdeasReturned
    /\ JSONparse(lastOp.content).ok
    /\ FieldIsArray(JSONparse(lastOp.content).val, "data")
    /\ FieldIsArray(JSONparse(lastOp.content).val, "ideas")
    /\ lastOp.ideas[1].title = Str(<<"A">>)

\* the first "[" of the text together with the "]" that closes it
RECURSIVE ClosingBracket(_, _, _)
ClosingBracket(s, i, depth) ==
    IF i > Len(s) THEN 0
    ELSE IF s[i] = "[" THEN ClosingBracket(s, i + 1, depth + 1)
    ELSE IF s[i] = "]"
         THEN IF depth = 1 THEN i ELSE ClosingBracket(s, i + 1, depth - 1)
    ELSE ClosingBracket(s, i + 1, depth)

FirstBracketed(s) ==
    LET opens == {i \in 1..Len(s) : s[i] = "["}
        first == CHOOSE i \in opens : \A k \in opens : i <= k
    IN IF opens = {} \/ ClosingBracket(s, first + 1, 1) = 0 THEN << >>
       ELSE SubSeq(s, first, ClosingBracket(s, first + 1, 1))

\* the outcome of the call when the fallback text is `text`
RecoveredFrom(text) ==
    IF text # << >> /\ JSONparse(text).ok
    THEN MappedFrom(JSONparse(text).val.items)
    ELSE lastOp.raised /\ lastOp.error \in {"parse", "SyntaxError"} /\ lastOp.ideas = << >>

\* C16 as stated: when the completion does not parse as it stands, the first
\* bracket-delimited array substring is parsed instead, and the call fails
\* with a parse error if that substring does not parse.
C16_FirstArrayRecovered ==
    (IdeasCall /\ lastOp.content # << >> /\ ~JSONparse(lastOp.content).ok) =>
        RecoveredFrom(FirstBracketed(lastOp.content))

\* C16 amended: when the completion does not parse as it stands, the text
\* from its first "[" to its last "]" is parsed instead, so an idea array
\* inside prose that has no "[" before it and no "]" after it is recovered;
\* the call fails with a parse error if there is no such text or it does not
\* parse.
C16_OuterBracketsRecovered ==
    (IdeasCall /\ lastOp.content # << >> /\ ~JSONparse(lastOp.content).ok) =>
        LET s == lastOp.content
            firstOpen == {i \in 1..Len(s) :
                            s[i] = "[" /\ \A k \in 1..(i - 1) : s[k] # "["}
            lastClose == {j \in 1..Len(s) :
                            s[j] = "]" /\ \A k \in (j + 1)..Len(s) : s[k] # "]"}
        IN IF \E i \in firstOpen, j \in lastClose : i < j
           THEN \A i \in firstOpen, j \in lastClose :
                    RecoveredFrom(SubSeq(s, i, j))
           ELSE RecoveredFrom(<< >>)

C16_Witness ==
    /\ IdeasReturned
    /\ lastOp.content = <<"w", " ", "[", "{">> \o KV("title", <<"A">>) \o <<",">>
                           \o KV("description", <<"B">>) \o <<"}", "]", " ", "w">>
    /\ Len(lastOp.ideas) = 1
    /\ lastOp.ideas[1].title = Str(<<"A">>)
    /\ lastOp.ideas[1].description = Str(<<"B">>)

\* ---- generateVeoPrompt
VeoCall == lastOp.op = "generateVeoPrompt"
VeoReturned == VeoCall /\ ~lastOp.raised

\* C17: generateVeoPrompt never returns a result whose veoPrompt is empty; a
\* prompt that is empty after extraction makes the call fail instead.
C17_PromptNeverEmpty ==
    VeoReturned => lastOp.veoPrompt # << >>

\* the first of the fields `names` of p that holds a non-empty value
FirstNonEmpty(p, names) ==
    LET hits == {i \in 1..Len(names) : Truthy(GetMember(p, <<names[i]>>))}
    IN IF hits = {} THEN Undefined
       ELSE GetMember(p, <<names[CHOOSE i \in hits : \A j \in hits : i <= j]>>)

PromptFields == <<"veo_prompt", "veoPrompt", "prompt">>
TitleFields == <<"video_title", "videoTitle", "title">>

\* C18 as stated: the prompt is the first non-empty of veo_prompt, veoPrompt,
\* prompt; the title is the first non-empty of video_title, videoTitle,
\* title, else the idea's title; and the returned videoTitle is the idea's
\* title exactly when the completion supplies no title field.
C18_IdeaTitleIffNoField ==
    (VeoReturned /\ JSONparse(lastOp.content).ok) =>
        LET p == JSONparse(lastOp.content).val
        IN /\ lastOp.veoPrompt = Trim(FirstNonEmpty(p, PromptFields).s)
           /\ lastOp.videoTitle = Trim(lastOp.ideaTitle)
                <=> \A i \in 1..Len(TitleFields) : ~Present(p, <<TitleFields[i]>>)

\* C18 amended: the returned prompt is the first non-empty of veo_prompt,
\* veoPrompt, prompt, trimmed; the returned title is the first non-empty of
\* video_title, videoTitle, title, trimmed, and it is the idea's title,
\* trimmed, whenever the completion supplies no non-empty title field.
C18_FirstNonEmptyTrimmed ==
    (VeoReturned /\ JSONparse(lastOp.content).ok) =>
        LET p == JSONparse(lastOp.content).val
        IN /\ lastOp.veoPrompt = Trim(FirstNonEmpty(p, PromptFields).s)
           /\ lastOp.videoTitle =
                IF FirstNonEmpty(p, TitleFields) = Undefined
                THEN Trim(lastOp.ideaTitle)
                ELSE Trim(FirstNonEmpty(p, TitleFields).s)

C18_Witness ==
    /\ VeoReturned
    /\ JSONparse(lastOp.content).ok
    /\ GetMember(JSONparse(lastOp.content).val, <<"veo_prompt">>) = Str(<< >>)
    /\ GetMember(JSONparse(lastOp.content).val, <<"video_title">>) = Str(<< >>)
    /\ lastOp.veoPrompt = <<"Q">>
    /\ lastOp.ideaTitle = <<" ", "I">>
    /\ lastOp.videoTitle = <<"I">>

\* C19: when the completion does not parse as it stands, a result is built
\* only if the prompt pattern and the title pattern both match, from the
\* values they capture; if either does not match, the call fails with a
\* parse error and returns nothing.
C19_BothPatternsOrParseError ==
    (VeoCall /\ lastOp.content # << >> /\ ~JSONparse(lastOp.content).ok) =>
        IF veoMatch(lastOp.content).found /\ titleMatch(lastOp.content).found
        THEN IF Trim(veoMatch(lastOp.content).group) = << >>
             THEN lastOp.raised /\ lastOp.error = "missing field"
             ELSE /\ ~lastOp.raised
                  /\ lastOp.veoPrompt = Trim(veoMatch(lastOp.content).group)
                  /\ lastOp.videoTitle =
                       IF Trim(titleMatch(lastOp.content).group) = << >>
                       THEN Trim(lastOp.ideaTitle)
                       ELSE Trim(titleMatch(lastOp.content).group)
        ELSE /\ lastOp.raised
             /\ lastOp.error = "parse"
             /\ lastOp.veoPrompt = << >>
             /\ lastOp.videoTitle = << >>

C19_Witness ==
    /\ VeoReturned
    /\ lastOp.content = <<"w", "\n", "veo_prompt", ":", " ", Quote, "P", Quote, "\n",
                           "video_title", ":", " ", "V">>
    /\ lastOp.veoPrompt = <<"P">>
    /\ lastOp.videoTitle = <<"V">>

\* ---- generateTitle
TitleReturned == lastOp.op = "generateTitle" /\ ~lastOp.raised

\* no white space after position `pos` (counted from 1) of the text
NoWhitespaceAfter(text, pos) ==
    \A i \in (pos + 1)..Len(text) : text[i] \notin Whitespace

\* the text shortened to its last boundary among `marks` at an index
\* (counted from 0) above MinLastSpace, if there is one
BackedOff(cut, marks) ==
    LET at == {i \in 1..Len(cut) : cut[i] \in marks /\ i - 1 > MinLastSpace}
    IN IF at = {} THEN cut
       ELSE SubSeq(cut, 1, (CHOOSE i \in at : \A j \in at : j <= i) - 1)

\* C20 as stated: the returned title has at most 60 characters; a cleaned
\* title longer than 60 is cut at 60 and shortened to a white space boundary
\* past character 40 of the cut text if there is one; a raw title of 80
\* characters with no white space after position 40 comes back with exactly
\* 60 characters.
C20_RawEightyGivesSixty ==
    TitleReturned =>
        LET cleaned == cleanTitle(lastOp.content)
        IN /\ Len(lastOp.title) <= MaxTitleLength
           /\ Len(cleaned) > MaxTitleLength =>
                  lastOp.title = BackedOff(SubSeq(cleaned, 1, MaxTitleLength), Whitespace)
           /\ (Len(lastOp.content) = 80 /\ NoWhitespaceAfter(lastOp.content, 40)) =>
                  Len(lastOp.title) = MaxTitleLength

\* C20 amended: the returned title has at most 60 characters; a cleaned
\* title longer than 60 is cut at 60, trimmed, and shortened to its last
\* space at an index above 40 if there is one; a title that is 80 characters
\* long after cleaning, does not begin with white space and has no white
\* space after position 40 comes back with exactly 60 characters.
C20_TitleAtMostSixty ==
    TitleReturned =>
        LET cleaned == cleanTitle(lastOp.content)
        IN /\ Len(lastOp.title) <= MaxTitleLength
           /\ Len(cleaned) > MaxTitleLength =>
                  lastOp.title = BackedOff(Trim(SubSeq(cleaned, 1, MaxTitleLength)), {" "})
           /\ Len(cleaned) <= MaxTitleLength => lastOp.title = cleaned
           /\ (/\ Len(cleaned) = 80
               /\ cleaned[1] \notin Whitespace
               /\ NoWhitespaceAfter(cleaned, 40)) =>
                  Len(lastOp.title) = MaxTitleLength

C20_Witness ==
    /\ TitleReturned
    /\ Len(lastOp.content) = 80
    /\ lastOp.content[11] = " "
    /\ NoWhitespaceAfter(lastOp.content, 40)
    /\ Len(lastOp.title) = 60

\* ---- generateTitle, cleaning
\* the title holds a "#" or "@" followed by a word character
HasTag(title) ==
    \E j \in 1..(Len(title) - 1) : title[j] \in TagStarts /\ title[j + 1] \in WordChars

\* C21: the returned title holds no emoji and no "#" or "@" tag, and a
\* completion wrapped in quote characters comes back without the quotes
\* around it.
C21_TitleClean ==
    TitleReturned =>
        /\ \A j \in 1..Len(lastOp.title) : lastOp.title[j] \notin Emoji \cup EmojiOutsideRange
        /\ ~HasTag(lastOp.title)
        /\ \A inner \in {<<"a">>} :
               lastOp.content = <<Quote>> \o inner \o <<Quote>> => lastOp.title = inner

\* ---- the generation calls and their client
\* the value a generation call hands back
Returned(r) ==
    CASE r.op = "generateIdeas" -> r.ideas
      [] r.op = "generateVeoPrompt" -> r.veoPrompt \o r.videoTitle
      [] r.op = "generateTitle" -> r.title

\* the text names none of the fields
Names(text, fields) == \E i \in 1..Len(text) : text[i] \in fields

C23_ExtractionDeterministic ==
    [][ (/\ completion.fn = "generateIdeas"
         /\ completion' = NoCompletion
         /\ lastOp.op = "generateIdeas"
         /\ lastOp.content = completion.content
         /\ lastOp.content # << >>
         /\ lastOp'.count = lastOp.count) =>
            /\ lastOp'.raised = lastOp.raised
            /\ lastOp'.error = lastOp.error
            /\ lastOp'.ideas = lastOp.ideas
      ]_vars

\* C24: the client is constructed at most once: a call that finds the key
\* while there is no client constructs it, every later call and every request
\* in flight uses that instance, and a call that finds neither a client nor
\* the key fails as not configured and leaves the module without a client.
C24_ClientOnce ==
    [][ /\ openai # NoClient => openai' = openai
        /\ openai' \in {NoClient, 1}
        /\ (openai = NoClient /\ openai' # NoClient) => apiKey
        /\ \A req \in BagToSet(requests') : req.client = openai' /\ openai' # NoClient
        /\ (openai = NoClient /\ apiKey /\ apiKey') =>
               (openai' = 1 /\ BagCardinality(requests') = 1 /\ lastOp' = lastOp)
        /\ (openai = NoClient /\ ~apiKey /\ ~apiKey') =>
               /\ openai' = NoClient
               /\ requests' = EmptyBag
               /\ lastOp'.op \in GenerationCalls
               /\ lastOp'.raised
               /\ lastOp'.error = "not configured"
      ]_vars

C24_Witness ==
    /\ lastOp.op \in GenerationCalls
    /\ lastOp.error = "not configured"
    /\ openai = 1
    /\ BagCardinality(requests) = MaxRequests

\* ---- errors recorded while the run is being finished
\* error-level logEvent calls suspended in state `st`
PendingErrors(st) == CopiesIn([level |-> "error", st |-> st], pending)

\* every append asked for so far was accepted or has yet to settle
NoAppendFailed ==
    /\ PendingErrors("rejected") = 0
    /\ calls.errorReturns = errorsCount

\* C25: once an error-level logEvent call has returned, a finishRun that
\* persists stores the status partial or error, never success, whether or
\* not the store accepted the event.
C25_ErrorReturnedNeverSuccess ==
    [][ (runs' # runs /\ calls.errorReturns >= 1) =>
            runs'[runId].status \in {"partial", "error"} ]_vars

\* C26: when logEvent calls are made without awaiting them, the errorsCount
\* and the status a finishRun persists account for every error-level call
\* made before it, the calls still in flight included.
C26_FinishCountsInFlight ==
    [][ (runs' # runs /\ NoAppendFailed) =>
            /\ runs'[runId].errorsCount = calls.errorCalls
            /\ calls.errorCalls >= 1 => runs'[runId].status \in {"partial", "error"}
      ]_vars

\* C27 as stated: in every reachable state errorsCount equals the number of
\* error-level events the store has accepted from this logger.
C27_CountEqualsAppended ==
    /\ errorsCount = ErrorEvents
    /\ ErrorEvents = calls.errors

\* C27 amended: errorsCount never exceeds the number of error-level events
\* the store has accepted from this logger, and falls short of it by exactly
\* the calls whose event is stored and whose continuation has yet to run;
\* the two are equal whenever there is no such call. A rejected append adds
\* neither an event nor a count.
C27_CountFollowsAppended ==
    /\ ErrorEvents = calls.errors
    /\ errorsCount + PendingErrors("resolved") = ErrorEvents
    /\ PendingErrors("resolved") = 0 => errorsCount = ErrorEvents

C27_Witness ==
    /\ errorsCount = 1
    /\ ErrorEvents = 1
    /\ calls.errorCalls = 2
    /\ calls.errorReturns = 2
    /\ lastOp.op = "logEvent" /\ ~lastOp.ok

====
